---- MODULE Spec2Model ----
(***************************************************************************)
(* TCP file transfer of "Practice 1": send_file (file_client.py) talking   *)
(* to receive_file / start_server (file_server.py) over one stream         *)
(* connection per session.                                                 *)
(*                                                                         *)
(* Bytes are integers 0..255 and byte strings are sequences of them.  The  *)
(* two directions of the connection are the sequences c2s (sender to       *)
(* receiver) and s2c (receiver to sender); a recv(n) returns any non-empty *)
(* prefix of at most n bytes of what is in flight, or the empty string     *)
(* once the peer has closed and nothing is left.  An end that is closed    *)
(* discards what it had not read and what arrives later, and answers with  *)
(* a reset that reaches the other end some time afterwards; from then on   *)
(* every send and recv of that other end raises.                           *)
(*                                                                         *)
(* Python integers are unbounded while TLC's are 32 bits wide, so a value  *)
(* carried by the 8-byte size field is kept as four 16-bit words, most     *)
(* significant first (U64); counters that the code only ever increments    *)
(* by the length of a chunk stay plain integers.                           *)
(***************************************************************************)
EXTENDS Integers, Sequences, FiniteSets, TLC

\* ---------------------------------------------------------------- bounds
\* longest transfer name, in bytes
MaxNameLen == 2
\* largest source file and largest size the sender declares, in bytes
MaxSize == 3
\* chunk size of both loops.  The source uses 4096 (file_client.py:54,
\* file_server.py:41); the specification calls it a tuning parameter, and the
\* model scales it down so that files of MaxSize bytes span several chunks.
CHUNK == 2
\* connections the dispatcher is offered
MaxSessions == 2

\* -------------------------------------------------------------- constants
\* buffer size of the sender's two acknowledgment reads
AckBuf == 1024
\* width of the name-length field and of the size field
LenWidth == 4
SizeWidth == 8

\* the acknowledgment tokens, as ASCII byte strings
METADATA_OK == <<77, 69, 84, 65, 68, 65, 84, 65, 95, 79, 75>>
OK == <<79, 75>>
ERROR == <<69, 82, 82, 79, 82>>

Min(a, b) == IF a < b THEN a ELSE b

Take(s, k) == SubSeq(s, 1, k)
Drop(s, k) == SubSeq(s, k + 1, Len(s))

\* ------------------------------------------------------ header encoding
\* struct.pack('!I', n): 4 bytes, big-endian
PackI(n) ==
    << (n \div 16777216) % 256, (n \div 65536) % 256, (n \div 256) % 256, n % 256 >>

\* struct.unpack('!I', b)[0]
UnpackI(b) == b[1] * 16777216 + b[2] * 65536 + b[3] * 256 + b[4]

\* an unsigned 64-bit value as four 16-bit words, most significant first
U64(n) == << 0, 0, n \div 65536, n % 65536 >>

\* struct.pack('!Q', v): 8 bytes, big-endian
PackQLittle(v) ==
    << v[4] % 256, v[4] \div 256, v[3] % 256, v[3] \div 256,
       v[2] % 256, v[2] \div 256, v[1] % 256, v[1] \div 256 >>
PackQ(v) ==
    << v[1] \div 256, v[1] % 256, v[2] \div 256, v[2] % 256,
       v[3] \div 256, v[3] % 256, v[4] \div 256, v[4] % 256 >>

\* struct.unpack('!Q', b)[0]
UnpackQ(b) ==
    << b[1] * 256 + b[2], b[3] * 256 + b[4], b[5] * 256 + b[6], b[7] * 256 + b[8] >>

\* v does not fit the plain integers the counters use
Huge(v) == v[1] > 0 \/ v[2] > 0 \/ v[3] >= 16384
\* the value of a v that fits
Val(v) == v[3] * 65536 + v[4]

\* n < v, for a counter n
Below(n, v) == Huge(v) \/ n < Val(v)

\* min(c, v - n), for a counter n < v
MinOwed(c, v, n) == IF Huge(v) THEN c ELSE Min(c, Val(v) - n)

\* ------------------------------------------------------------- state
VARIABLES
    \* send_file: arguments and what it read from the file system
    name,           \* basename.encode('utf-8')
    srcFile,        \* content of the source file
    c_filesize,     \* os.path.getsize(filename), a U64
    \* send_file: locals and position
    c_pc,
    client_socket,  \* "none", "open", "closed"
    metadata_ack,
    bytes_sent,
    f_pos,          \* read offset of the open source file
    c_ret,          \* "none", "True", "False"
    c_msg,          \* the cause send_file printed
    \* receive_file: locals and position
    r_pc,
    conn,           \* "none", "open", "closed"
    filename_len,
    filename,
    filesize,       \* a U64
    bytes_received,
    chunk_size,
    data,           \* what the last payload recv returned
    f,              \* destination handle: "none", "open", "closed"
    raised,         \* an exception is leaving receive_file
    \* start_server and its environment
    server_socket,  \* "open", "closed"
    fs,             \* received_files/: name -> content, or NoFile
    dir,            \* the directory received_files exists
    session,        \* connections offered so far
    \* the connection
    c2s, s2c,       \* bytes in flight
    c_rst, r_rst,   \* reset of the sender's / receiver's end: "no", "pending", "yes"
    \* history
    payload_sent,   \* payload bytes send_file put on the connection
    tokens,         \* tokens the running receive_file has sent
    r_broke,        \* the receive loop was left through its break
    chunks,         \* lengths of the payload chunks send_file has sent
    \* the MPI variant (file_transfer_mpi.py), which has the same locals
    mq,             \* messages sent and not yet received, by tag
    m_sync,         \* a send returns only once its message is received
    chunk_length    \* receiver_process: the length announced on tag 20

inputs == << name, srcFile, c_filesize >>
client == << c_pc, client_socket, metadata_ack, bytes_sent, f_pos, c_ret, c_msg >>
server == << r_pc, conn, filename_len, filename, filesize, bytes_received,
             chunk_size, data, f, raised >>
env == << server_socket, fs, dir, session >>
net == << c2s, s2c, c_rst, r_rst >>
hist == << payload_sent, tokens, r_broke, chunks >>
mpi == << mq, m_sync, chunk_length >>
vars == << inputs, client, server, env, net, hist, mpi >>

NoFile == << -1 >>

\* a transfer name of n bytes: "a", "ab", "abc", ..
NameOf(n) == [i \in 1..n |-> 96 + i]

\* names a regular file can have, and names the receiver can come to use
SendNames == {NameOf(n) : n \in 1..MaxNameLen}
AllNames == {NameOf(n) : n \in 0..MaxNameLen}

\* a source file of n bytes: bytes 1, 2, .., n
FileOf(n) == [i \in 1..n |-> i]

\* the tags of file_transfer_mpi.py: metadata, its acknowledgment, a chunk's
\* length (0 marks the end), a chunk's data, the final acknowledgment
Tags == {10, 11, 20, 21, 30}

\* no MPI run
MpiIdle ==
    /\ mq = [t \in Tags |-> << >>]
    /\ m_sync = FALSE
    /\ chunk_length = 0

\* the locals of a call of send_file that has not started
ClientFresh ==
    /\ c_pc = "start"
    /\ client_socket = "none"
    /\ metadata_ack = << >>
    /\ bytes_sent = 0
    /\ f_pos = 0
    /\ c_ret = "none"
    /\ c_msg = "none"

\* start_server blocked in accept, no receive_file call active
ServerIdle ==
    /\ r_pc = "accept"
    /\ conn = "none"
    /\ filename_len = 0
    /\ filename = << >>
    /\ filesize = U64(0)
    /\ bytes_received = 0
    /\ chunk_size = 0
    /\ data = << >>
    /\ f = "none"
    /\ raised = FALSE

NetFresh ==
    /\ c2s = << >>
    /\ s2c = << >>
    /\ c_rst = "no"
    /\ r_rst = "no"
    /\ payload_sent = 0
    /\ tokens = << >>
    /\ r_broke = FALSE
    /\ chunks = << >>

Init ==
    /\ name \in SendNames
    /\ srcFile \in {FileOf(n) : n \in 0..MaxSize}
    /\ c_filesize \in {U64(n) : n \in 0..MaxSize}
    /\ ClientFresh
    /\ ServerIdle
    /\ NetFresh
    /\ server_socket = "open"
    /\ fs = [n \in AllNames |-> NoFile]
    /\ dir = FALSE
    /\ session = 1
    /\ MpiIdle

\* ------------------------------------------------------------ send_file
\* return from inside the try block: the finally clause closes the socket and
\* the locals are gone.  Bytes the sender had not read are discarded and
\* answered with a reset.
ClientReturn(ret, msg, unread) ==
    /\ c_pc' = "done"
    /\ client_socket' = "closed"
    /\ c_ret' = ret
    /\ c_msg' = msg
    /\ metadata_ack' = << >>
    /\ bytes_sent' = 0
    /\ f_pos' = 0
    /\ payload_sent' = 0
    /\ chunks' = << >>
    /\ s2c' = << >>
    /\ r_rst' = IF unread # << >> /\ conn = "open" /\ r_rst = "no"
                THEN "pending" ELSE r_rst

\* client_socket.send(b), of which n bytes are payload: the bytes join the
\* stream (a closed peer discards them and resets) and the loop's counters
\* advance by n; on a reset connection send raises and the handler of
\* "except Exception" returns False
ClientSend(b, n, next) ==
    IF c_rst = "yes"
    THEN /\ ClientReturn("False", "exception", s2c)
         /\ UNCHANGED << c2s, c_rst >>
    ELSE /\ c_pc' = next
         /\ IF conn = "closed"
            THEN /\ c_rst' = "pending"
                 /\ UNCHANGED c2s
            ELSE /\ c2s' = c2s \o b
                 /\ UNCHANGED c_rst
         /\ payload_sent' = payload_sent + n
         /\ chunks' = IF n > 0 THEN Append(chunks, n) ELSE chunks
         /\ bytes_sent' = bytes_sent + n
         /\ f_pos' = f_pos + n
         /\ UNCHANGED << client_socket, c_ret, c_msg, metadata_ack, s2c, r_rst >>

\* socket(), connect(): refused when nobody listens
ClientConnect ==
    /\ c_pc = "start"
    /\ IF server_socket = "open"
       THEN /\ client_socket' = "open"
            /\ c_pc' = "send_len"
            /\ UNCHANGED << c_ret, c_msg, metadata_ack, bytes_sent, f_pos,
                            payload_sent, chunks, s2c, r_rst >>
       ELSE ClientReturn("False", "refused", s2c)
    /\ UNCHANGED << mpi, inputs, server, env, c2s, c_rst, tokens, r_broke >>

\* client_socket.send(struct.pack('!I', filename_len))
ClientSendLen ==
    /\ c_pc = "send_len"
    /\ ClientSend(PackI(Len(name)), 0, "send_name")
    /\ UNCHANGED << mpi, inputs, server, env, tokens, r_broke >>

\* client_socket.send(filename_bytes)
ClientSendName ==
    /\ c_pc = "send_name"
    /\ ClientSend(name, 0, "send_size")
    /\ UNCHANGED << mpi, inputs, server, env, tokens, r_broke >>

\* client_socket.send(struct.pack('!Q', filesize))
ClientSendSize ==
    /\ c_pc = "send_size"
    /\ ClientSend(PackQ(c_filesize), 0, "wait_meta")
    /\ UNCHANGED << mpi, inputs, server, env, tokens, r_broke >>

\* a recv(n) of the sender may return k bytes: a non-empty prefix of what is
\* in flight, or nothing once the receiver has closed
ClientRecv(n, k) ==
    \/ k >= 1 /\ k <= Min(n, Len(s2c))
    \/ k = 0 /\ s2c = << >> /\ conn = "closed"

\* the test of the metadata acknowledgment
MetaAckedPrefix(ack) == ack # << >> /\ ack = Take(METADATA_OK, Len(ack))
MetaAcked(ack) == ack = METADATA_OK

\* metadata_ack = client_socket.recv(1024), returning k bytes, and the test
\* that follows
ClientRecvMeta(k) ==
    /\ c_pc = "wait_meta"
    /\ IF c_rst = "yes"
       THEN /\ k = 0
            /\ ClientReturn("False", "exception", s2c)
       ELSE /\ ClientRecv(AckBuf, k)
            /\ IF MetaAcked(Take(s2c, k))
               THEN /\ metadata_ack' = Take(s2c, k)
                    /\ c_pc' = "stream"
                    /\ s2c' = Drop(s2c, k)
                    /\ UNCHANGED << client_socket, c_ret, c_msg, bytes_sent,
                                    f_pos, payload_sent, chunks, r_rst >>
               ELSE ClientReturn("False", "no_metadata_ack", Drop(s2c, k))
    /\ UNCHANGED << mpi, inputs, server, env, c2s, c_rst, tokens, r_broke >>

\* f.read(4096) at offset f_pos
ReadChunkByte == SubSeq(srcFile, f_pos + 1, Min(f_pos + 1, Len(srcFile)))
ReadChunk == SubSeq(srcFile, f_pos + 1, Min(f_pos + CHUNK, Len(srcFile)))

\* one turn of "while bytes_sent < filesize": read a chunk, break on an
\* empty one, else send it and count it
ClientStream ==
    /\ c_pc = "stream"
    /\ IF Below(bytes_sent, c_filesize) /\ ReadChunk # << >>
       THEN ClientSend(ReadChunk, Len(ReadChunk), "stream")
       ELSE /\ c_pc' = "wait_final"
            /\ UNCHANGED << client_socket, c_ret, c_msg, metadata_ack,
                            c2s, s2c, c_rst, r_rst, payload_sent, chunks, bytes_sent, f_pos >>
    /\ UNCHANGED << mpi, inputs, server, env, tokens, r_broke >>

\* what send_file returns and prints for a final acknowledgment
FinalOutcome(final_ack) ==
    IF final_ack = OK THEN << "True", "sent" >> ELSE << "False", "server_error" >>

\* final_ack = client_socket.recv(1024), returning k bytes, and the report
ClientRecvFinal(k) ==
    /\ c_pc = "wait_final"
    /\ IF c_rst = "yes"
       THEN /\ k = 0
            /\ ClientReturn("False", "exception", s2c)
       ELSE /\ ClientRecv(AckBuf, k)
            /\ ClientReturn(FinalOutcome(Take(s2c, k))[1],
                            FinalOutcome(Take(s2c, k))[2], Drop(s2c, k))
    /\ UNCHANGED << mpi, inputs, server, env, c2s, c_rst, tokens, r_broke >>

\* an exception inside the try block that the peer did not cause (the source
\* file cannot be opened or read, the network fails): "except Exception"
\* returns False and the finally clause closes the socket
ClientFail ==
    /\ c_pc \in {"send_len", "send_name", "send_size", "wait_meta", "stream",
                 "wait_final"}
    /\ ClientReturn("False", "exception", s2c)
    /\ UNCHANGED << mpi, inputs, server, env, c2s, c_rst, tokens, r_broke >>

\* ------------------------------------------------- receive_file, start_server
\* the sender's end of the connection exists (connect() succeeded)
Connected == client_socket # "none" /\ c_msg # "refused"

\* a recv(n) of the receiver may return k bytes: a non-empty prefix of what is
\* in flight, or nothing once the sender has closed and the stream is drained
\* (recv(0) returns nothing at once)
ConnRecv(n, k) ==
    \/ k >= 1 /\ k <= Min(n, Len(c2s))
    \/ k = 0 /\ n = 0
    \/ k = 0 /\ c2s = << >> /\ client_socket = "closed"

\* conn, addr = server_socket.accept(); receive_file(conn, addr)
ServerAccept ==
    /\ r_pc = "accept"
    /\ server_socket = "open"
    /\ conn = "none"
    /\ Connected
    /\ conn' = "open"
    /\ r_pc' = "recv_len"
    /\ UNCHANGED << mpi, inputs, client, filename_len, filename, filesize,
                    bytes_received, chunk_size, data, f, raised, env, net, hist >>

\* filename_len_data = conn.recv(4): empty returns, 4 bytes unpack, anything
\* shorter makes struct.unpack raise
RecvLen(k) ==
    /\ r_pc = "recv_len"
    /\ IF r_rst = "yes"
       THEN /\ k = 0
            /\ r_pc' = "except"
            /\ UNCHANGED << filename_len, c2s >>
       ELSE /\ ConnRecv(LenWidth, k)
            /\ c2s' = Drop(c2s, k)
            /\ IF k = 0
               THEN r_pc' = "finally" /\ UNCHANGED filename_len
               ELSE IF k = LenWidth
                    THEN /\ filename_len' = UnpackI(Take(c2s, k))
                         /\ r_pc' = "recv_name"
                    ELSE r_pc' = "except" /\ UNCHANGED filename_len
    /\ UNCHANGED << mpi, inputs, client, conn, filename, filesize, bytes_received,
                    chunk_size, data, f, raised, env, s2c, c_rst, r_rst, hist >>

\* filename = conn.recv(filename_len).decode('utf-8'): whatever the read
\* returned becomes the name
RecvName(k) ==
    /\ r_pc = "recv_name"
    /\ IF r_rst = "yes"
       THEN /\ k = 0
            /\ r_pc' = "except"
            /\ UNCHANGED << filename, c2s >>
       ELSE /\ ConnRecv(filename_len, k)
            /\ filename' = Take(c2s, k)
            /\ c2s' = Drop(c2s, k)
            /\ r_pc' = "recv_size"
    /\ UNCHANGED << mpi, inputs, client, conn, filename_len, filesize, bytes_received,
                    chunk_size, data, f, raised, env, s2c, c_rst, r_rst, hist >>

\* filesize_data = conn.recv(8); struct.unpack('!Q', ..) raises unless the
\* read returned 8 bytes
RecvSize(k) ==
    /\ r_pc = "recv_size"
    /\ IF r_rst = "yes"
       THEN /\ k = 0
            /\ r_pc' = "except"
            /\ UNCHANGED << filesize, c2s >>
       ELSE /\ ConnRecv(SizeWidth, k)
            /\ c2s' = Drop(c2s, k)
            /\ IF k = SizeWidth
               THEN /\ filesize' = UnpackQ(Take(c2s, k))
                    /\ r_pc' = "send_meta"
               ELSE r_pc' = "except" /\ UNCHANGED filesize
    /\ UNCHANGED << mpi, inputs, client, conn, filename_len, filename, bytes_received,
                    chunk_size, data, f, raised, env, s2c, c_rst, r_rst, hist >>

\* conn.send(token): on a reset connection send raises; otherwise the bytes
\* join the stream towards the sender (a closed sender discards them and
\* resets)
ConnSend(token, tname, next) ==
    IF r_rst = "yes"
    THEN /\ r_pc' = "except"
         /\ UNCHANGED << s2c, r_rst, tokens >>
    ELSE /\ tokens' = Append(tokens, tname)
         /\ r_pc' = next
         /\ IF client_socket = "closed"
            THEN /\ r_rst' = "pending"
                 /\ UNCHANGED s2c
            ELSE /\ s2c' = s2c \o token
                 /\ UNCHANGED r_rst

\* conn.send(b"METADATA_OK")
SendMetaOk ==
    /\ r_pc = "send_meta"
    /\ ConnSend(METADATA_OK, "METADATA_OK", "open")
    /\ UNCHANGED << mpi, inputs, client, conn, filename_len, filename, filesize,
                    bytes_received, chunk_size, data, f, raised, env,
                    c2s, c_rst, payload_sent, chunks, r_broke >>

\* open(filepath, 'wb') on a path holding content, or nothing
OpenTruncAppend(content) == IF content = NoFile THEN << >> ELSE content
OpenTrunc(content) == << >>

\* os.makedirs(..); bytes_received = 0; open(filepath, 'wb') truncates
OpenDestEarly ==
    /\ r_pc \in {"send_meta", "open"}
    /\ dir' = TRUE
    /\ fs' = [fs EXCEPT ![filename] = OpenTrunc(@)]
    /\ f' = "open"
    /\ bytes_received' = 0
    /\ r_pc' = "loop"
    /\ UNCHANGED << mpi, inputs, client, conn, filename_len, filename, filesize,
                    chunk_size, data, raised, server_socket, session, net, hist >>
OpenDest ==
    /\ r_pc = "open"
    /\ dir' = TRUE
    /\ fs' = [fs EXCEPT ![filename] = OpenTrunc(@)]
    /\ f' = "open"
    /\ bytes_received' = 0
    /\ r_pc' = "loop"
    /\ UNCHANGED << mpi, inputs, client, conn, filename_len, filename, filesize,
                    chunk_size, data, raised, server_socket, session, net, hist >>

\* chunk_size = min(4096, filesize - bytes_received)
RecvRequestNaive(size, received) == CHUNK
RecvRequest(size, received) == MinOwed(CHUNK, size, received)

\* f.write(data) on a file holding content
FileWriteFront(content, d) == d \o content
FileWrite(content, d) == content \o d

\* bytes_received += len(data), after a recv(req) that returned d
CountedRequest(received, d, req) == received + req
Counted(received, d, req) == received + Len(d)

\* the test of "while bytes_received < filesize"
MoreOwedInclusive(received, size) == Huge(size) \/ received <= Val(size)
MoreOwed(received, size) == Below(received, size)

\* one turn of the receive loop: bounded recv, break on an empty read, else
\* write and count; leaving the loop leaves the with block, which closes f
RecvLoop(k) ==
    /\ r_pc = "loop"
    /\ IF ~MoreOwed(bytes_received, filesize)
       THEN /\ k = 0
            /\ r_pc' = "send_ok"
            /\ f' = "closed"
            /\ UNCHANGED << chunk_size, data, c2s, fs, bytes_received, r_broke >>
       ELSE /\ chunk_size' = RecvRequest(filesize, bytes_received)
            /\ IF r_rst = "yes"
               THEN /\ k = 0
                    /\ r_pc' = "except"
                    /\ f' = "closed"
                    /\ UNCHANGED << data, c2s, fs, bytes_received, r_broke >>
               ELSE /\ ConnRecv(RecvRequest(filesize, bytes_received), k)
                    /\ data' = Take(c2s, k)
                    /\ c2s' = Drop(c2s, k)
                    /\ IF k = 0
                       THEN /\ r_broke' = TRUE
                            /\ r_pc' = "send_ok"
                            /\ f' = "closed"
                            /\ UNCHANGED << fs, bytes_received >>
                       ELSE /\ fs' = [fs EXCEPT ![filename] = FileWrite(@, Take(c2s, k))]
                            /\ bytes_received' =
                                   Counted(bytes_received, Take(c2s, k),
                                           RecvRequest(filesize, bytes_received))
                            /\ UNCHANGED << r_pc, f, r_broke >>
    /\ UNCHANGED << mpi, inputs, client, conn, filename_len, filename, filesize,
                    raised, server_socket, dir, session, s2c, c_rst, r_rst,
                    payload_sent, chunks, tokens >>

\* f.write(data) raises (the disk is full, the file system fails): the k bytes
\* read are lost, the with block closes f and the handler runs
RecvWriteError(k) ==
    /\ r_pc = "loop"
    /\ MoreOwed(bytes_received, filesize)
    /\ r_rst # "yes"
    /\ k >= 1
    /\ ConnRecv(RecvRequest(filesize, bytes_received), k)
    /\ chunk_size' = RecvRequest(filesize, bytes_received)
    /\ data' = Take(c2s, k)
    /\ c2s' = Drop(c2s, k)
    /\ f' = "closed"
    /\ r_pc' = "except"
    /\ UNCHANGED << mpi, inputs, client, conn, filename_len, filename, filesize,
                    bytes_received, raised, env, s2c, c_rst, r_rst, hist >>

\* print("File received successfully"); conn.send(b"OK")
SendOk ==
    /\ r_pc = "send_ok"
    /\ ConnSend(OK, "OK", "finally")
    /\ UNCHANGED << mpi, inputs, client, conn, filename_len, filename, filesize,
                    bytes_received, chunk_size, data, f, raised, env,
                    c2s, c_rst, payload_sent, chunks, r_broke >>

\* except Exception: conn.send(b"ERROR"); when this send raises, nothing
\* handles it and the exception leaves receive_file after the finally clause
HandleErrorSilent ==
    /\ r_pc = "except"
    /\ r_pc' = "finally"
    /\ UNCHANGED << mpi, inputs, client, conn, filename_len, filename, filesize,
                    bytes_received, chunk_size, data, f, raised, env, net, hist >>
HandleError ==
    /\ r_pc = "except"
    /\ IF r_rst = "yes"
       THEN /\ raised' = TRUE
            /\ UNCHANGED << s2c, r_rst, tokens >>
       ELSE /\ tokens' = Append(tokens, "ERROR")
            /\ IF client_socket = "closed"
               THEN /\ r_rst' = "pending"
                    /\ UNCHANGED s2c
               ELSE /\ s2c' = s2c \o ERROR
                    /\ UNCHANGED r_rst
            /\ UNCHANGED raised
    /\ r_pc' = "finally"
    /\ UNCHANGED << mpi, inputs, client, conn, filename_len, filename, filesize,
                    bytes_received, chunk_size, data, f, env,
                    c2s, c_rst, payload_sent, chunks, r_broke >>

\* conn.close(): bytes the receiver had not read are discarded and answered
\* with a reset
ConnCloseLeak ==
    /\ conn' = conn
    /\ c2s' = << >>
    /\ c_rst' = c_rst
ConnClose ==
    /\ conn' = "closed"
    /\ c2s' = << >>
    /\ c_rst' = IF c2s # << >> /\ client_socket = "open" /\ c_rst = "no"
                THEN "pending" ELSE c_rst

\* the locals of receive_file are gone once it is left
LocalsKept ==
    /\ UNCHANGED << filename_len, filename, filesize, bytes_received,
                    chunk_size, data >>
    /\ f' = "none"
    /\ raised' = FALSE
    /\ tokens' = << >>
    /\ r_broke' = FALSE
LocalsGone ==
    /\ filename_len' = 0
    /\ filename' = << >>
    /\ filesize' = U64(0)
    /\ bytes_received' = 0
    /\ chunk_size' = 0
    /\ data' = << >>
    /\ f' = "none"
    /\ raised' = FALSE
    /\ tokens' = << >>
    /\ r_broke' = FALSE

\* finally: conn.close().  receive_file returns to the accept loop, or the
\* exception it lets out ends start_server, whose finally clause closes the
\* listening socket
CloseConn ==
    /\ r_pc = "finally"
    /\ ConnClose
    /\ IF raised
       THEN /\ server_socket' = "closed"
            /\ r_pc' = "crashed"
       ELSE /\ r_pc' = "accept"
            /\ UNCHANGED server_socket
    /\ LocalsGone
    /\ UNCHANGED << mpi, inputs, client, fs, dir, session, s2c, r_rst, payload_sent, chunks >>

\* KeyboardInterrupt: not an Exception, so inside receive_file only the with
\* block and the finally clause run; start_server prints, closes the listening
\* socket and ends.  A connection still waiting to be accepted is reset.
ServerInterrupt ==
    /\ r_pc \notin {"down", "crashed"}
    /\ IF conn = "open"
       THEN ConnClose
       ELSE IF conn = "none" /\ Connected
            THEN /\ conn' = "closed"
                 /\ c2s' = << >>
                 /\ c_rst' = IF client_socket = "open" THEN "pending" ELSE c_rst
            ELSE UNCHANGED << conn, c2s, c_rst >>
    /\ server_socket' = "closed"
    /\ r_pc' = "down"
    /\ LocalsGone
    /\ UNCHANGED << mpi, inputs, client, fs, dir, session, s2c, r_rst, payload_sent, chunks >>

\* ------------------------------------------------------------ connection
\* the reset a closed end answered with reaches the other end
ResetToServer ==
    /\ r_rst = "pending"
    /\ conn = "open"
    /\ r_rst' = "yes"
    /\ UNCHANGED << mpi, inputs, client, server, env, c2s, s2c, c_rst, hist >>

ResetToClient ==
    /\ c_rst = "pending"
    /\ client_socket = "open"
    /\ c_rst' = "yes"
    /\ UNCHANGED << mpi, inputs, client, server, env, c2s, s2c, r_rst, hist >>

\* send_file is run again on the same file, on a new connection, once the
\* previous call has returned and the dispatcher is back in accept
NextSession ==
    /\ c_pc = "done"
    /\ r_pc = "accept"
    /\ conn # "open"
    /\ session < MaxSessions
    /\ session' = session + 1
    /\ c_pc' = "start"
    /\ client_socket' = "none"
    /\ metadata_ack' = << >>
    /\ bytes_sent' = 0
    /\ f_pos' = 0
    /\ c_ret' = "none"
    /\ c_msg' = "none"
    /\ conn' = "none"
    /\ c2s' = << >>
    /\ s2c' = << >>
    /\ c_rst' = "no"
    /\ r_rst' = "no"
    /\ payload_sent' = 0
    /\ chunks' = << >>
    /\ tokens' = << >>
    /\ r_broke' = FALSE
    /\ UNCHANGED << mpi, inputs, r_pc, filename_len, filename, filesize,
                    bytes_received, chunk_size, data, f, raised, server_socket, fs, dir >>

\* the longest read the model offers a recv
MaxRead == Len(METADATA_OK) + Len(OK)

Next ==
    \/ ClientConnect
    \/ ClientSendLen
    \/ ClientSendName
    \/ ClientSendSize
    \/ \E k \in 0..MaxRead : ClientRecvMeta(k)
    \/ ClientStream
    \/ \E k \in 0..MaxRead : ClientRecvFinal(k)
    \/ ClientFail
    \/ ServerAccept
    \/ \E k \in 0..LenWidth : RecvLen(k)
    \/ \E k \in 0..MaxNameLen : RecvName(k)
    \/ \E k \in 0..SizeWidth : RecvSize(k)
    \/ SendMetaOk
    \/ OpenDest
    \/ \E k \in 0..CHUNK : RecvLoop(k)
    \/ \E k \in 1..CHUNK : RecvWriteError(k)
    \/ SendOk
    \/ HandleError
    \/ CloseConn
    \/ ServerInterrupt
    \/ ResetToServer
    \/ ResetToClient
    \/ NextSession

Spec == Init /\ [][Next]_vars

\* the steps of send_file and of receive_file / start_server that the two
\* processes take on their own, and the delivery of resets by the network
ClientProg ==
    \/ ClientConnect
    \/ ClientSendLen
    \/ ClientSendName
    \/ ClientSendSize
    \/ \E k \in 0..MaxRead : ClientRecvMeta(k)
    \/ ClientStream
    \/ \E k \in 0..MaxRead : ClientRecvFinal(k)

ServerProg ==
    \/ ServerAccept
    \/ \E k \in 0..LenWidth : RecvLen(k)
    \/ \E k \in 0..MaxNameLen : RecvName(k)
    \/ \E k \in 0..SizeWidth : RecvSize(k)
    \/ SendMetaOk
    \/ OpenDest
    \/ \E k \in 0..CHUNK : RecvLoop(k)
    \/ SendOk
    \/ HandleError
    \/ CloseConn

\* one session: a single run of send_file against the dispatcher
NextOne ==
    \/ ClientProg
    \/ ClientFail
    \/ ServerProg
    \/ \E k \in 1..CHUNK : RecvWriteError(k)
    \/ ServerInterrupt
    \/ ResetToServer
    \/ ResetToClient

\* one session in which both processes keep running and the network delivers
FairOne ==
    /\ Init
    /\ [][NextOne]_vars
    /\ WF_vars(ClientProg)
    /\ WF_vars(ServerProg)
    /\ WF_vars(ResetToServer)
    /\ WF_vars(ResetToClient)

\* ------------------------------------------ header exchange with full reads
\* sizes the 8-byte field can carry: 0, 1, 255, 256, 65535, 65536, 2^32 - 1,
\* 2^32, 2^63, 2^64 - 1
HdrSizes ==
    { << 0, 0, 0, 0 >>, << 0, 0, 0, 1 >>, << 0, 0, 0, 255 >>, << 0, 0, 0, 256 >>,
      << 0, 0, 0, 65535 >>, << 0, 0, 1, 0 >>, << 0, 0, 65535, 65535 >>,
      << 0, 1, 0, 0 >>, << 32768, 0, 0, 0 >>, << 65535, 65535, 65535, 65535 >> }

\* name lengths the 4-byte field is asked to carry
HdrLens == {0, 1, 255, 256, 65535}

\* as Init, for any name (the empty one included) and any declared size
InitHdr ==
    /\ name \in AllNames
    /\ srcFile = FileOf(0)
    /\ c_filesize \in HdrSizes
    /\ ClientFresh
    /\ ServerIdle
    /\ NetFresh
    /\ server_socket = "open"
    /\ fs = [n \in AllNames |-> NoFile]
    /\ dir = FALSE
    /\ session = 1
    /\ MpiIdle

\* the three header reads, each returning the full field
FullRecvLen == Len(c2s) >= LenWidth /\ RecvLen(LenWidth)
FullRecvName == Len(c2s) >= filename_len /\ RecvName(filename_len)
FullRecvSize == Len(c2s) >= SizeWidth /\ RecvSize(SizeWidth)

NextHdr ==
    \/ ClientConnect
    \/ ClientSendLen
    \/ ClientSendName
    \/ ClientSendSize
    \/ ServerAccept
    \/ FullRecvLen
    \/ FullRecvName
    \/ FullRecvSize

SpecHdr == InitHdr /\ [][NextHdr]_vars

\* --------------------------------------- the MPI variant, file_transfer_mpi.py
\* Rank 1 runs sender_process and rank 0 receiver_process.  A message waits in
\* mq[tag] until a receive with that tag takes it; messages of one tag are
\* received in the order they were sent.  A standard-mode send may return as
\* soon as its message is buffered, or only once the message is received:
\* m_sync tells which of the two the MPI library does in this run.

\* the variables of the socket variant that the MPI variant has no use for
tcp_only == << client_socket, metadata_ack, conn, filename_len, chunk_size, data,
               raised, server_socket, session, net, payload_sent, r_broke, chunks >>

\* comm.send(obj, dest=.., tag=t) / comm.Send(buf, dest=.., tag=t)
MpiSend(t, obj) == mq' = [mq EXCEPT ![t] = Append(@, obj)]

\* comm.recv(source=.., tag=t) can return
MpiCanRecv(t) == mq[t] # << >>

\* the sends rank 1 / rank 0 has made have returned
SenderUnblocked == ~m_sync \/ (mq[10] = << >> /\ mq[20] = << >> /\ mq[21] = << >>)
ReceiverUnblocked == ~m_sync \/ (mq[11] = << >> /\ mq[30] = << >>)

InitMpi ==
    /\ name \in SendNames
    /\ srcFile \in {FileOf(n) : n \in 0..MaxSize}
    /\ c_filesize \in {U64(n) : n \in 0..MaxSize}
    /\ m_sync \in BOOLEAN
    /\ mq = [t \in Tags |-> << >>]
    /\ chunk_length = 0
    /\ c_pc = "m_start"
    /\ client_socket = "none"
    /\ metadata_ack = << >>
    /\ bytes_sent = 0
    /\ f_pos = 0
    /\ c_ret = "none"
    /\ c_msg = "none"
    /\ r_pc = "m_recv_meta"
    /\ conn = "none"
    /\ filename_len = 0
    /\ filename = << >>
    /\ filesize = U64(0)
    /\ bytes_received = 0
    /\ chunk_size = 0
    /\ data = << >>
    /\ f = "none"
    /\ raised = FALSE
    /\ NetFresh
    /\ server_socket = "closed"
    /\ fs = [n \in AllNames |-> NoFile]
    /\ dir = FALSE
    /\ session = 1

\* sender_process returns ret, having printed msg
MpiSenderReturn(ret, msg) ==
    /\ c_pc' = "m_done"
    /\ c_ret' = ret
    /\ c_msg' = msg
    /\ bytes_sent' = 0
    /\ f_pos' = 0

\* os.path.exists(filename) is false: return False before any message
MpiNotFound ==
    /\ c_pc = "m_start"
    /\ MpiSenderReturn("False", "not_found")
    /\ UNCHANGED << inputs, tcp_only, mpi, r_pc, filename, filesize,
                    bytes_received, f, fs, dir, tokens >>

\* comm.send(metadata, dest=RECEIVER_RANK, tag=10)
MpiSendMeta ==
    /\ c_pc = "m_start"
    /\ MpiSend(10, [filename |-> name, filesize |-> c_filesize])
    /\ c_pc' = "m_wait_meta"
    /\ UNCHANGED << inputs, tcp_only, m_sync, chunk_length, bytes_sent, f_pos,
                    c_ret, c_msg, r_pc, filename, filesize, bytes_received,
                    f, fs, dir, tokens >>

\* ack = comm.recv(source=RECEIVER_RANK, tag=11) and the test that follows
MpiRecvMetaAck ==
    /\ c_pc = "m_wait_meta"
    /\ SenderUnblocked
    /\ MpiCanRecv(11)
    /\ mq' = [mq EXCEPT ![11] = Tail(@)]
    /\ IF Head(mq[11]) = "METADATA_OK"
       THEN /\ c_pc' = "m_stream"
            /\ UNCHANGED << bytes_sent, f_pos, c_ret, c_msg >>
       ELSE MpiSenderReturn("False", "no_metadata_ack")
    /\ UNCHANGED << inputs, tcp_only, m_sync, chunk_length, r_pc, filename,
                    filesize, bytes_received, f, fs, dir, tokens >>

\* one test of "while bytes_sent < filesize" and the read that follows: a
\* chunk that is not empty has its length sent on tag 20; otherwise the loop
\* is left and the end marker 0 is sent on tag 20
MpiStreamLen ==
    /\ c_pc = "m_stream"
    /\ SenderUnblocked
    /\ IF Below(bytes_sent, c_filesize) /\ ReadChunk # << >>
       THEN /\ MpiSend(20, Len(ReadChunk))
            /\ c_pc' = "m_send_data"
       ELSE /\ MpiSend(20, 0)
            /\ c_pc' = "m_wait_final"
    /\ UNCHANGED << inputs, tcp_only, m_sync, chunk_length, bytes_sent, f_pos,
                    c_ret, c_msg, r_pc, filename, filesize, bytes_received,
                    f, fs, dir, tokens >>

\* comm.Send(chunk_array, dest=RECEIVER_RANK, tag=21); bytes_sent += chunk_length
MpiSendData ==
    /\ c_pc = "m_send_data"
    /\ SenderUnblocked
    /\ MpiSend(21, ReadChunk)
    /\ bytes_sent' = bytes_sent + Len(ReadChunk)
    /\ f_pos' = f_pos + Len(ReadChunk)
    /\ c_pc' = "m_stream"
    /\ UNCHANGED << inputs, tcp_only, m_sync, chunk_length, c_ret, c_msg, r_pc,
                    filename, filesize, bytes_received, f, fs, dir, tokens >>

\* what sender_process returns and prints for a final acknowledgment
MpiFinalOutcome(final_ack) ==
    IF final_ack = "OK" THEN << "True", "confirmed" >> ELSE << "False", "issue" >>

\* final_ack = comm.recv(source=RECEIVER_RANK, tag=30) and the report
MpiRecvFinal ==
    /\ c_pc = "m_wait_final"
    /\ SenderUnblocked
    /\ MpiCanRecv(30)
    /\ mq' = [mq EXCEPT ![30] = Tail(@)]
    /\ MpiSenderReturn(MpiFinalOutcome(Head(mq[30]))[1],
                       MpiFinalOutcome(Head(mq[30]))[2])
    /\ UNCHANGED << inputs, tcp_only, m_sync, chunk_length, r_pc, filename,
                    filesize, bytes_received, f, fs, dir, tokens >>

\* an exception inside the send loop (the file cannot be opened or read):
\* "except Exception" prints it and returns False
MpiSenderFail ==
    /\ c_pc = "m_stream"
    /\ SenderUnblocked
    /\ MpiSenderReturn("False", "exception")
    /\ UNCHANGED << inputs, tcp_only, mpi, r_pc, filename, filesize,
                    bytes_received, f, fs, dir, tokens >>

\* metadata = comm.recv(source=SENDER_RANK, tag=10); filename, filesize
MpiRecvMeta ==
    /\ r_pc = "m_recv_meta"
    /\ MpiCanRecv(10)
    /\ mq' = [mq EXCEPT ![10] = Tail(@)]
    /\ filename' = Head(mq[10]).filename
    /\ filesize' = Head(mq[10]).filesize
    /\ r_pc' = "m_ack"
    /\ UNCHANGED << inputs, tcp_only, m_sync, chunk_length, c_pc, bytes_sent,
                    f_pos, c_ret, c_msg, bytes_received, f, fs, dir, tokens >>

\* comm.send("METADATA_OK", dest=SENDER_RANK, tag=11)
MpiAckMeta ==
    /\ r_pc = "m_ack"
    /\ MpiSend(11, "METADATA_OK")
    /\ tokens' = Append(tokens, "METADATA_OK")
    /\ r_pc' = "m_open"
    /\ UNCHANGED << inputs, tcp_only, m_sync, chunk_length, c_pc, bytes_sent,
                    f_pos, c_ret, c_msg, filename, filesize, bytes_received,
                    f, fs, dir >>

\* os.makedirs(..); bytes_received = 0; open(filepath, 'wb')
MpiOpenDest ==
    /\ r_pc = "m_open"
    /\ ReceiverUnblocked
    /\ dir' = TRUE
    /\ fs' = [fs EXCEPT ![filename] = OpenTrunc(@)]
    /\ f' = "open"
    /\ bytes_received' = 0
    /\ r_pc' = "m_loop"
    /\ UNCHANGED << inputs, tcp_only, mpi, c_pc, bytes_sent, f_pos, c_ret, c_msg,
                    filename, filesize, tokens >>

\* one test of "while bytes_received < filesize" and, when it holds,
\* chunk_length = comm.recv(source=SENDER_RANK, tag=20) with the break on 0;
\* leaving the loop leaves the with block, which closes f
MpiRecvLen ==
    /\ r_pc = "m_loop"
    /\ IF ~MoreOwed(bytes_received, filesize)
       THEN /\ r_pc' = "m_verify"
            /\ f' = "closed"
            /\ UNCHANGED << mq, chunk_length >>
       ELSE /\ MpiCanRecv(20)
            /\ mq' = [mq EXCEPT ![20] = Tail(@)]
            /\ chunk_length' = Head(mq[20])
            /\ IF Head(mq[20]) = 0
               THEN r_pc' = "m_verify" /\ f' = "closed"
               ELSE r_pc' = "m_recv_data" /\ UNCHANGED f
    /\ UNCHANGED << inputs, tcp_only, m_sync, c_pc, bytes_sent, f_pos, c_ret,
                    c_msg, filename, filesize, bytes_received, fs, dir, tokens >>

\* comm.Recv(chunk_array, source=SENDER_RANK, tag=21); f.write(..);
\* bytes_received += chunk_length
MpiRecvData ==
    /\ r_pc = "m_recv_data"
    /\ MpiCanRecv(21)
    /\ mq' = [mq EXCEPT ![21] = Tail(@)]
    /\ fs' = [fs EXCEPT ![filename] = FileWrite(@, Head(mq[21]))]
    /\ bytes_received' = bytes_received + chunk_length
    /\ r_pc' = "m_loop"
    /\ UNCHANGED << inputs, tcp_only, m_sync, chunk_length, c_pc, bytes_sent,
                    f_pos, c_ret, c_msg, filename, filesize, f, dir, tokens >>

\* the test "actual_size == filesize"
SizeVerifiedAtLeast(actual_size, size) == ~Below(actual_size, size)
SizeVerified(actual_size, size) == U64(actual_size) = size

\* what receiver_process replies on tag 30 after the loop
MpiReply == IF SizeVerified(Len(fs[filename]), filesize) THEN "OK" ELSE "SIZE_MISMATCH"

\* actual_size = os.path.getsize(filepath) and the reply on tag 30
MpiVerify ==
    /\ r_pc = "m_verify"
    /\ MpiSend(30, MpiReply)
    /\ tokens' = Append(tokens, MpiReply)
    /\ r_pc' = "m_replied"
    /\ UNCHANGED << inputs, tcp_only, m_sync, chunk_length, c_pc, bytes_sent,
                    f_pos, c_ret, c_msg, filename, filesize, bytes_received,
                    f, fs, dir >>

\* an exception inside receiver_process (the directory or the file cannot be
\* made, a write fails after its chunk arrived): the with block closes f and
\* the handler sends "ERROR" on tag 30
MpiReceiverFail ==
    /\ \/ /\ r_pc = "m_open"
          /\ ReceiverUnblocked
          /\ MpiSend(30, "ERROR")
       \/ /\ r_pc = "m_recv_data"
          /\ MpiCanRecv(21)
          /\ mq' = [mq EXCEPT ![21] = Tail(@), ![30] = Append(@, "ERROR")]
    /\ tokens' = Append(tokens, "ERROR")
    /\ f' = IF f = "open" THEN "closed" ELSE f
    /\ r_pc' = "m_replied"
    /\ UNCHANGED << inputs, tcp_only, m_sync, chunk_length, c_pc, bytes_sent,
                    f_pos, c_ret, c_msg, filename, filesize, bytes_received,
                    fs, dir >>

\* receiver_process returns once its reply has left
MpiReceiverReturn ==
    /\ r_pc = "m_replied"
    /\ ReceiverUnblocked
    /\ r_pc' = "m_done"
    /\ UNCHANGED << inputs, tcp_only, mpi, c_pc, bytes_sent, f_pos, c_ret, c_msg,
                    filename, filesize, bytes_received, f, fs, dir, tokens >>

SenderProg ==
    \/ MpiSendMeta
    \/ MpiRecvMetaAck
    \/ MpiStreamLen
    \/ MpiSendData
    \/ MpiRecvFinal

ReceiverProg ==
    \/ MpiRecvMeta
    \/ MpiAckMeta
    \/ MpiOpenDest
    \/ MpiRecvLen
    \/ MpiRecvData
    \/ MpiVerify
    \/ MpiReceiverReturn

NextMpi ==
    \/ SenderProg
    \/ MpiNotFound
    \/ MpiSenderFail
    \/ ReceiverProg
    \/ MpiReceiverFail

SpecMpi == InitMpi /\ [][NextMpi]_vars

\* a two-rank run in which both ranks keep running
FairMpi == SpecMpi /\ WF_vars(SenderProg) /\ WF_vars(ReceiverProg)

\* ------------------------------------------------------------ properties
\* n <= v, for a counter n
AtMost(n, v) == Huge(v) \/ n <= Val(v)

\* the last token the running receive_file has sent
LastToken == IF tokens = << >> THEN "none" ELSE tokens[Len(tokens)]

\* C1 (round trip): when the source file has the size the sender declared and
\* the receive loop ends without having seen the sender close, the receiver
\* used the sender's name, counted exactly the file's size and the destination
\* holds the source bytes in order, also after OK was sent.
RoundTrip ==
    (c_filesize = U64(Len(srcFile)) /\ ~r_broke
       /\ (r_pc = "send_ok" \/ (r_pc = "finally" /\ LastToken = "OK"))) =>
        /\ filename = name
        /\ bytes_received = Len(srcFile)
        /\ fs[name] = srcFile

RoundTripDone ==
    /\ r_pc = "finally"
    /\ LastToken = "OK"
    /\ ~r_broke
    /\ Len(srcFile) = MaxSize
    /\ c_filesize = U64(MaxSize)
    /\ fs[name] = srcFile
    /\ bytes_received = MaxSize

\* C2 (bounded read): a payload read that returned data had asked for
\* min(CHUNK, filesize - bytes_received) bytes, which is at least 1 and at
\* most what was still owed, it returned no more than it asked for, and the
\* bytes taken from the stream never exceed the declared size.
BoundedRead ==
    (r_pc = "loop" /\ chunk_size # 0) =>
        LET before == bytes_received - Len(data) IN
        /\ chunk_size >= 1
        /\ chunk_size <= CHUNK
        /\ Len(data) <= chunk_size
        /\ ~Huge(filesize) =>
              /\ chunk_size = Min(CHUNK, Val(filesize) - before)
              /\ before + chunk_size <= Val(filesize)
              /\ bytes_received <= Val(filesize)

\* the receiver has taken all it was owed and the stream holds a further byte
BoundedReadLeavesRest ==
    /\ r_pc = "loop"
    /\ chunk_size # 0
    /\ data # << >>
    /\ filesize = c_filesize
    /\ bytes_received = Val(filesize)
    /\ c2s # << >>

\* C3 (fragmentation independence): once the header was decoded and the
\* source holds the declared number of bytes, the receive loop is left,
\* however the reads fragment the stream; and a loop that ends without having
\* seen the sender close has written exactly filesize bytes.
FragmentationIndependence ==
    /\ (r_pc = "loop" /\ filesize = c_filesize /\ ~Below(Len(srcFile), c_filesize))
         ~> (r_pc # "loop")
    /\ []((r_pc = "send_ok" /\ ~r_broke) =>
            /\ filesize = U64(bytes_received)
            /\ Len(fs[filename]) = bytes_received)

\* the loop has ended after a last read that returned a single byte
FragmentedDone ==
    /\ r_pc = "send_ok"
    /\ ~r_broke
    /\ bytes_received = MaxSize
    /\ Len(data) = 1
    /\ fs[filename] = srcFile

\* C4 (early close detection), as claimed: OK is sent only when bytes_received
\* equals the declared filesize.
OkOnlyWhenComplete ==
    (r_pc = "finally" /\ LastToken = "OK") => filesize = U64(bytes_received)

\* C5 (byte count): while the destination is open or was opened,
\* bytes_received is between 0 and filesize and is the number of bytes the
\* destination holds; and no step inside a session lowers it.
ByteCount ==
    /\ [](f # "none" =>
            /\ bytes_received >= 0
            /\ AtMost(bytes_received, filesize)
            /\ bytes_received = Len(fs[filename]))
    /\ [][r_pc' \notin {"accept", "down", "crashed"} =>
            bytes_received' >= bytes_received]_vars

\* a second session is writing over the file the first one left
ByteCountSecond ==
    /\ session = 2
    /\ r_pc = "loop"
    /\ filename = name
    /\ filesize = c_filesize
    /\ bytes_received = 1
    /\ fs[name] = << 1 >>
    /\ Len(srcFile) >= 2

\* C6 (bad handshake): the sender is at or past its send loop, and payload is
\* on the connection, only after the metadata read returned exactly
\* METADATA_OK; a sender that leaves the metadata wait on anything else has
\* sent no payload, sends nothing more, returns False and closes its socket.
BadHandshake ==
    /\ [](c_pc \in {"stream", "wait_final"} => metadata_ack = METADATA_OK)
    /\ [](payload_sent > 0 => c_pc \in {"stream", "wait_final"})
    /\ [][(c_pc = "wait_meta" /\ c_pc' = "done") =>
            /\ payload_sent = 0
            /\ c2s' = c2s
            /\ c_ret' = "False"
            /\ client_socket' = "closed"]_vars

\* the receiver answered the header with ERROR and the sender gave up on it
BadHandshakeSeen ==
    /\ c_msg = "no_metadata_ack"
    /\ c_ret = "False"
    /\ tokens = << "ERROR" >>
    /\ r_rst = "no"
    /\ r_pc = "finally"

\* C7 (header exact read), as claimed: a receiver that goes on past the
\* header holds the name and the size the sender encoded.
HeaderExactRead ==
    r_pc \in {"send_meta", "open", "loop", "send_ok"} =>
        /\ filename = name
        /\ filesize = c_filesize

\* C8 (header integrity): when each of the three reads returns its full
\* field, the receiver holds the length, name and size the sender encoded;
\* and the 4-byte field returns every length up to 65535.
HeaderIntegrity ==
    /\ r_pc = "recv_name" => filename_len = Len(name)
    /\ r_pc = "recv_size" => filename = name
    /\ r_pc = "send_meta" =>
          /\ filename_len = Len(name)
          /\ filename = name
          /\ filesize = c_filesize
    /\ \A n \in HdrLens : UnpackI(PackI(n)) = n

\* the largest size and the longest name were decoded
HeaderDecoded ==
    /\ r_pc = "send_meta"
    /\ filename = NameOf(MaxNameLen)
    /\ filesize = << 65535, 65535, 65535, 65535 >>

\* C9 (session isolation), as claimed: no exception leaves receive_file, so
\* the listening socket is closed only by an interrupt.
SessionIsolation ==
    /\ r_pc # "crashed"
    /\ server_socket = "closed" => r_pc = "down"

\* C10 (final acknowledgment), as claimed: the final wait ends in True only
\* when what arrived starts with OK, and in the rejected outcome only when a
\* token arrived, not when the connection was closed with nothing in flight.
FinalAckOutcomes ==
    [][c_pc = "wait_final" =>
         /\ c_ret' = "True" => Take(s2c, Len(OK)) = OK
         /\ c_msg' = "server_error" => s2c # << >>]_vars

\* C11 (sender payload), as claimed: when the source holds at least the
\* declared number of bytes, a sender that has left its send loop has put
\* exactly that many payload bytes on the connection.
SenderPayloadExact ==
    (c_pc = "wait_final" /\ ~Below(Len(srcFile), c_filesize)) =>
        payload_sent = Val(c_filesize)

\* C12 (truncated source), as claimed: a sender whose source ended before the
\* declared size waits for the final acknowledgment and eventually returns.
TruncatedSourceEnds ==
    (c_pc = "wait_final" /\ Below(Len(srcFile), c_filesize)) ~> (c_pc = "done")

\* C13 (empty file): for a declared size of 0 the sender puts no payload on
\* the connection; the receiver, once it has opened the destination, issues no
\* payload read, leaves the loop by its condition with an empty destination
\* in an existing directory, and has sent OK after METADATA_OK by the time it
\* closes, unless the connection was reset under it.
EmptyFile ==
    /\ c_filesize = U64(0) => (payload_sent = 0 /\ chunks = << >>)
    /\ (f # "none" /\ filesize = U64(0)) =>
          /\ chunk_size = 0
          /\ data = << >>
          /\ ~r_broke
          /\ bytes_received = 0
          /\ dir
          /\ fs[filename] = << >>
          /\ r_pc = "finally" =>
                (tokens = << "METADATA_OK", "OK" >> \/ r_rst = "yes")

\* the empty transfer is through: OK is out and the sender waits for it
EmptyFileDone ==
    /\ c_filesize = U64(0)
    /\ filesize = U64(0)
    /\ filename = name
    /\ r_pc = "finally"
    /\ tokens = << "METADATA_OK", "OK" >>
    /\ fs[name] = << >>
    /\ c_pc = "wait_final"
    /\ payload_sent = 0

\* lengths of the chunks in which s bytes leave a loop that reads c at a time:
\* ceil(s / c) chunks, all of c bytes but a last one of s mod c when that is
\* not zero
ChunkPlan(s, c) ==
    [i \in 1..((s + c - 1) \div c) |-> IF i * c <= s THEN c ELSE s - (i - 1) * c]

\* the header as send_file writes it
HeaderBytes == PackI(Len(name)) \o name \o PackQ(c_filesize)

\* C14 (session trace): with a source of exactly the declared S bytes, the
\* stream opens with the 4-byte length, the name and the 8-byte size; chunks
\* leave only after METADATA_OK was read and follow the plan of ceil(S/CHUNK)
\* chunks (512,512,512,464 for S = 2000 in chunks of 512); while the receiver
\* is in its loop METADATA_OK is the only token it has sent; it sends OK after
\* the destination, holding the S source bytes, was closed, and METADATA_OK
\* and OK are then all it has sent.
SessionTrace ==
    /\ ChunkPlan(2000, 512) = << 512, 512, 512, 464 >>
    /\ (c_pc = "wait_meta" /\ conn = "none") => c2s = HeaderBytes
    /\ chunks # << >> => metadata_ack = METADATA_OK
    /\ r_pc \in {"open", "loop", "send_ok"} => tokens = << "METADATA_OK" >>
    /\ LastToken = "OK" => (f = "closed" /\ tokens = << "METADATA_OK", "OK" >>)
    /\ c_filesize = U64(Len(srcFile)) =>
          /\ chunks = Take(ChunkPlan(Len(srcFile), CHUNK), Len(chunks))
          /\ payload_sent = Min(Len(chunks) * CHUNK, Len(srcFile))
          /\ c_pc = "wait_final" => chunks = ChunkPlan(Len(srcFile), CHUNK)
          /\ (filename = name /\ filesize = c_filesize /\ ~r_broke
                /\ (r_pc = "send_ok" \/ LastToken = "OK")) => fs[name] = srcFile

\* a whole session of several chunks: OK is in flight to the waiting sender
SessionTraceDone ==
    /\ c_filesize = U64(MaxSize)
    /\ Len(srcFile) = MaxSize
    /\ c_pc = "wait_final"
    /\ chunks = ChunkPlan(MaxSize, CHUNK)
    /\ Len(chunks) >= 2
    /\ r_pc = "finally"
    /\ tokens = << "METADATA_OK", "OK" >>
    /\ fs[name] = srcFile
    /\ s2c = OK

\* C15 (resources closed): the destination handle is open only inside the
\* with block, so it is closed wherever receive_file is past its loop; once
\* receive_file has been left, by return or by an exception, its connection
\* is closed and no handle is left; send_file has closed the socket it made
\* whenever it has returned, and holds an open socket only while it runs.
ResourcesClosed ==
    /\ f = "open" => r_pc = "loop"
    /\ r_pc \in {"send_ok", "except", "finally"} => f \in {"none", "closed"}
    /\ r_pc \in {"accept", "down", "crashed"} => (conn # "open" /\ f = "none")
    /\ c_pc = "done" => client_socket = "closed"
    /\ client_socket = "open" => c_pc \notin {"start", "done"}

\* a write failed while the sender was waiting for the final acknowledgment:
\* receive_file has answered ERROR, closed the connection and returned
ResourcesClosedAfterWriteError ==
    /\ r_pc = "accept"
    /\ conn = "closed"
    /\ f = "none"
    /\ c_pc = "wait_final"
    /\ client_socket = "open"
    /\ s2c = ERROR
    /\ fs[name] # NoFile

\* the bytes at the end of the stream towards the sender
LastBytes(n) == IF Len(s2c) < n THEN << >> ELSE Drop(s2c, Len(s2c) - n)

\* C16 (explicit error token): a failed receive_file still holds its
\* connection when the handler starts; when it is about to close while the
\* sender's socket is open, it has either sent OK for a complete transfer or
\* sent ERROR, which is then the last thing in flight to the sender; and a
\* sender waiting for an acknowledgment while the receiver has failed
\* returns.
ExplicitErrorToken ==
    /\ [](r_pc = "except" => conn = "open")
    /\ []((r_pc = "finally" /\ client_socket = "open") =>
            \/ LastToken = "OK" /\ ~r_broke /\ filesize = U64(bytes_received)
            \/ LastToken = "ERROR" /\ LastBytes(Len(ERROR)) = ERROR)
    /\ (c_pc \in {"wait_meta", "wait_final"} /\ r_pc = "except") ~> (c_pc = "done")

\* the sender read ERROR as its final acknowledgment and returned False
ErrorTokenRead ==
    /\ r_pc = "finally"
    /\ tokens = << "METADATA_OK", "ERROR" >>
    /\ r_rst = "no"
    /\ c_pc = "done"
    /\ c_ret = "False"
    /\ c_msg = "server_error"

\* receive_file has sent METADATA_OK in the running session
MetaOkSent == tokens # << >> /\ tokens[1] = "METADATA_OK"

\* C17 (acknowledge, then open): METADATA_OK leaves only from the point that
\* follows the three header reads, where the receiver has taken the 4-byte
\* length, its name and the 8-byte size off the stream; the destination is
\* open, or was, only in a session that sent METADATA_OK; and a step of a
\* session that has not sent it changes neither the directory nor any file.
AckThenOpen ==
    /\ []((r_pc = "send_meta" /\ c_pc = "wait_meta") =>
            Len(c2s) + LenWidth + Len(filename) + SizeWidth = Len(HeaderBytes))
    /\ [](f # "none" => MetaOkSent)
    /\ [][(MetaOkSent' /\ ~MetaOkSent) => r_pc = "send_meta"]_vars
    /\ [][~MetaOkSent => (fs' = fs /\ dir' = dir)]_vars

\* a second session failed on its header: the file of the first is as it was
FailedBeforeAck ==
    /\ session = 2
    /\ r_pc = "finally"
    /\ tokens = << "ERROR" >>
    /\ dir
    /\ srcFile # << >>
    /\ fs[name] = srcFile

TokenMatching ==
    [][(c_pc \in {"wait_meta", "wait_final"} /\ c_pc' = "done"
          /\ tokens = << "METADATA_OK", "OK" >> /\ c_msg' # "exception") =>
         c_ret' = "True"]_vars

\* C20 (MPI completion check): receiver_process has replied OK only with a
\* written file of exactly the declared size, and SIZE_MISMATCH only with one
\* of another size; when the source yields fewer bytes than declared, the loop
\* is ended by the 0 on tag 20 with all the source's bytes written, the reply
\* of the check is SIZE_MISMATCH, and a sender_process that has returned
\* returned False; it returns True only on OK.
CompletionCheck ==
    /\ LastToken = "OK" => U64(Len(fs[filename])) = filesize
    /\ LastToken = "SIZE_MISMATCH" => U64(Len(fs[filename])) # filesize
    /\ r_pc \in {"m_replied", "m_done"} =>
          LastToken \in {"OK", "SIZE_MISMATCH", "ERROR"}
    /\ c_ret = "True" => LastToken = "OK"
    /\ Below(Len(srcFile), c_filesize) =>
          /\ LastToken # "OK"
          /\ r_pc = "m_verify" => (chunk_length = 0 /\ fs[filename] = srcFile)
          /\ c_pc = "m_done" => c_ret = "False"

\* a source shorter than declared went through: SIZE_MISMATCH, False
SizeMismatchReported ==
    /\ Below(Len(srcFile), c_filesize)
    /\ srcFile # << >>
    /\ r_pc = "m_done"
    /\ tokens = << "METADATA_OK", "SIZE_MISMATCH" >>
    /\ chunk_length = 0
    /\ fs[name] = srcFile
    /\ c_pc = "m_done"
    /\ c_ret = "False"
    /\ c_msg = "issue"

\* C21 (MPI termination), as claimed: in a two-rank run in which both ranks
\* keep running, once sender_process has returned receiver_process returns
\* too.
MpiTermination == (c_pc = "m_done") ~> (r_pc = "m_done")

====
